---- MODULE Spec2Model ----
(***************************************************************************)
(* Order-book replica maintenance of v2/websocket/factories.go:            *)
(* BookFactory.Build and BookFactory.BuildSnapshot called concurrently     *)
(* against one shared symbol -> Orderbook map guarded by one mutex.        *)
(*                                                                         *)
(* Orderbook.UpdateWith, Orderbook.SetWithSnapshot, the bitfinex           *)
(* NewBookUpdate*FromRaw constructors and convert.ToFloat64Array live in   *)
(* other files of the repository; they are modelled from the design        *)
(* document and are marked as such below.                                  *)
(***************************************************************************)
EXTENDS Integers, Sequences, FiniteSets, TLC

(* ---------------------------------------------------------------- bounds *)
NumProcs == 2
NumSymbols == 2
MaxPrice == 2
MaxCount == 2
MaxRows == 1
MaxCalls == 3

Procs == 1..NumProcs
Symbols == 1..NumSymbols
Prices == 1..MaxPrice
Amounts == {-1, 1}

(* ------------------------------------------------------------ data model *)
(* A price level / book update: price, exact count, signed amount.  The    *)
(* sign of the amount selects the side; count 0 asks for removal.          *)
Updates == [price : Prices, count : 0..MaxCount, amount : Amounts]
Levels == {u \in Updates : u.count > 0}

NilUpdate == [nil |-> TRUE]
NoError == "nil"
DecodeError == "DecodeError"
ConvertError == "ConvertError"
ConstructError == "ConstructError"
Panic == "panic"

Absent == [absent |-> TRUE]
EmptyBook == [bids |-> <<>>, asks |-> <<>>]

IsBid(u) == u.amount > 0

(* ------------------------------------------------------------- sequences *)
RECURSIVE SeqToSet(_)
SeqToSet(s) == IF s = <<>> THEN {} ELSE {Head(s)} \cup SeqToSet(Tail(s))

RECURSIVE RemovePrice(_, _)
RemovePrice(s, p) ==
    IF s = <<>> THEN <<>>
    ELSE IF Head(s).price = p THEN RemovePrice(Tail(s), p)
    ELSE <<Head(s)>> \o RemovePrice(Tail(s), p)

(* l goes before m on its side: bids descending, asks ascending. *)
Before(l, m) == IF IsBid(l) THEN l.price > m.price ELSE l.price < m.price

RECURSIVE InsertSorted(_, _)
InsertSorted(s, l) ==
    IF s = <<>> THEN <<l>>
    ELSE IF Before(l, Head(s)) THEN <<l>> \o s
    ELSE <<Head(s)>> \o InsertSorted(Tail(s), l)

(* ------------------------------------------------------------- Orderbook *)
(* Orderbook.UpdateWith: count > 0 upserts the level at that price on the  *)
(* side of the update, count = 0 removes it if present.                    *)
UpdateSideAppend(s, u) ==
    IF u.count > 0 THEN Append(RemovePrice(s, u.price), u)
    ELSE RemovePrice(s, u.price)

UpdateSide(s, u) ==
    IF u.count > 0 THEN InsertSorted(RemovePrice(s, u.price), u)
    ELSE RemovePrice(s, u.price)

UpdateWith(ob, u) ==
    IF IsBid(u) THEN [ob EXCEPT !.bids = UpdateSide(ob.bids, u)]
    ELSE [ob EXCEPT !.asks = UpdateSide(ob.asks, u)]

(* Orderbook.SetWithSnapshot: populate the book from the snapshot rows.    *)
RECURSIVE SetWithSnapshot(_, _)
SetWithSnapshot(ob, snap) ==
    IF snap = <<>> THEN ob
    ELSE SetWithSnapshot(UpdateWith(ob, Head(snap)), Tail(snap))

(* ------------------------------------------------------- wire messages *)
(* raw_bytes after json decoding: a malformed text, or an array           *)
(* [chanId, payload] (possibly cut short).  raw is the fast-path decode   *)
(* of the payload alone.                                                  *)
ChanId == 0
MalformedBytes == [wellformed |-> FALSE, elems |-> <<>>]
ArrayBytes(elems) == [wellformed |-> TRUE, elems |-> elems]

Fields(u) == <<u.price, u.count, u.amount>>

(* Single-update messages: well-formed ones, ones whose field list is too *)
(* short for a level, ones whose bytes hold fewer than two elements, and  *)
(* ones whose bytes are no array literal.                                 *)
UpdateMessages ==
    {[raw |-> Fields(u), bytes |-> ArrayBytes(<<ChanId, Fields(u)>>)] : u \in Updates}
    \cup {[raw |-> <<u.price, u.count>>,
           bytes |-> ArrayBytes(<<ChanId, <<u.price, u.count>>>>)] : u \in Updates}
    \cup {[raw |-> Fields(u), bytes |-> ArrayBytes(<<ChanId>>)] : u \in Updates}
    \cup {[raw |-> Fields(u), bytes |-> MalformedBytes] : u \in Updates}

(* Snapshot row lists: a state dump holds each (price, side) level at     *)
(* most once with a positive count, in any row order.                     *)
RowLists ==
    {s \in UNION {[1..n -> Levels] : n \in 0..MaxRows} :
        \A i, j \in 1..Len(s) :
            i # j => ~(s[i].price = s[j].price /\ s[i].amount = s[j].amount)}

RECURSIVE RowFields(_)
RowFields(s) == IF s = <<>> THEN <<>> ELSE <<Fields(Head(s))>> \o RowFields(Tail(s))

(* A cell that is no number (a string, a null): a value outside every    *)
(* numeric range of the model.                                            *)
BadCell == -(MaxPrice + MaxCount + 2)

SnapshotMessages ==
    {[raw |-> RowFields(s), bytes |-> ArrayBytes(<<ChanId, RowFields(s)>>)] : s \in RowLists}
    \cup {[raw |-> <<<<BadCell, 1, 1>>>>,
           bytes |-> ArrayBytes(<<ChanId, <<<<BadCell, 1, 1>>>>>>)],
          [raw |-> <<<<1, 1>>>>, bytes |-> ArrayBytes(<<ChanId, <<<<1, 1>>>>>>)],
          [raw |-> <<<<1, 1, 1>>>>, bytes |-> ArrayBytes(<<ChanId>>)],
          [raw |-> <<<<1, 1, 1>>>>, bytes |-> MalformedBytes]}

(* ------------------------------------------------------------ decoding *)
(* ConvertBytesToJsonNumberArray: the decoded array, or a decode error.   *)
ConvertBytesToJsonNumberArray(raw_bytes) ==
    IF raw_bytes.wellformed
    THEN [tokens |-> raw_bytes.elems, err |-> NoError]
    ELSE [tokens |-> <<>>, err |-> DecodeError]

(* convert.ToFloat64Array: every cell of every row must be numeric.       *)
ToFloat64Array(raw) ==
    IF \E i \in 1..Len(raw) : \E j \in 1..Len(raw[i]) : raw[i][j] = BadCell
    THEN [rows |-> <<>>, err |-> ConvertError]
    ELSE [rows |-> raw, err |-> NoError]

(* bitfinex.NewBookUpdateFromRaw: price and amount from the fast-path     *)
(* fields, the count from the exact tokens.  What comes back beside an    *)
(* error is not specified: nil or any update value.                       *)
NewBookUpdateFromRaw(raw, raw_numbers) ==
    IF Len(raw) < 3
    THEN {[update |-> v, err |-> ConstructError] : v \in {NilUpdate} \cup Updates}
    ELSE {[update |-> [price |-> raw[1], count |-> raw_numbers[2], amount |-> raw[3]],
           err |-> NoError]}

(* bitfinex.NewBookUpdateSnapshotFromRaw: one level per row, in row order. *)
RECURSIVE SnapshotRows(_, _)
SnapshotRows(rows, raw_numbers) ==
    IF rows = <<>> THEN <<>>
    ELSE <<[price |-> Head(rows)[1], count |-> Head(raw_numbers)[2],
            amount |-> Head(rows)[3]]>>
         \o SnapshotRows(Tail(rows), Tail(raw_numbers))

NewBookUpdateSnapshotFromRaw(converted, raw_numbers) ==
    IF \E i \in 1..Len(converted) : Len(converted[i]) < 3
    THEN [snapshot |-> <<>>, err |-> ConstructError]
    ELSE [snapshot |-> SnapshotRows(converted, raw_numbers), err |-> NoError]

(* ----------------------------------------------------------------- state *)
VARIABLES
    orderbooks,   \* BookFactory.orderbooks: symbol -> Orderbook or Absent
    lock,         \* BookFactory.lock: 0 when free, else the holder
    manageBooks,  \* BookFactory.manageBooks
    pc,           \* position of each caller inside Build / BuildSnapshot
    sym,          \* sub.Request.Symbol of the call in progress
    update,       \* Build's local update
    snapshot,     \* BuildSnapshot's local update (the snapshot rows)
    err,          \* the error the call is about to return
    saved,        \* history: the symbol's entry when the caller took the lock
    wrote,        \* history: the call in progress has changed orderbooks
    applied,      \* history: the store built from whole calls in unlock order
    built,        \* history: per symbol, what the last successful Build found
    calls,        \* number of calls started
    req,          \* the last call of a stateless factory or of the decoder
    res           \* what that call returned

facVars == <<req, res>>

bookVars == <<orderbooks, lock, manageBooks, pc, sym, update, snapshot, err,
              saved, wrote, applied, built, calls>>

vars == <<orderbooks, lock, manageBooks, pc, sym, update, snapshot, err,
          saved, wrote, applied, built, calls, req, res>>

NotTaken == [taken |-> FALSE]

NoRequest == [op |-> "none"]
NoResult == [val |-> "none"]

Init ==
    /\ orderbooks = [s \in Symbols |-> Absent]
    /\ lock = 0
    /\ manageBooks \in BOOLEAN
    /\ pc = [p \in Procs |-> "idle"]
    /\ sym = [p \in Procs |-> 1]
    /\ update = [p \in Procs |-> NilUpdate]
    /\ snapshot = [p \in Procs |-> <<>>]
    /\ err = [p \in Procs |-> NoError]
    /\ saved = [p \in Procs |-> NotTaken]
    /\ wrote = [p \in Procs |-> FALSE]
    /\ applied = [s \in Symbols |-> Absent]
    /\ built = [s \in Symbols |-> "none"]
    /\ calls = 0
    /\ req = NoRequest
    /\ res = NoResult

(* What a whole call does to a store when nothing interleaves with it.     *)
WholeCall(store, p) ==
    IF pc[p] = "b_ret"
    THEN IF store[sym[p]] # Absent /\ update[p] # NilUpdate
         THEN [store EXCEPT ![sym[p]] = UpdateWith(store[sym[p]], update[p])]
         ELSE store
    ELSE [store EXCEPT ![sym[p]] = SetWithSnapshot(EmptyBook, snapshot[p])]

(* A caller enters Build or BuildSnapshot. *)
CallBuildLocking(p) ==
    /\ pc[p] = "idle"
    /\ calls < MaxCalls
    /\ lock = 0
    /\ lock' = p
    /\ pc' = [pc EXCEPT ![p] = "b_decode"]
    /\ calls' = calls + 1
    /\ UNCHANGED facVars
    /\ UNCHANGED <<orderbooks, manageBooks, sym, update, snapshot, err,
                   saved, wrote, applied, built>>

CallBuild(p) ==
    /\ pc[p] = "idle"
    /\ calls < MaxCalls
    /\ pc' = [pc EXCEPT ![p] = "b_decode"]
    /\ calls' = calls + 1
    /\ UNCHANGED facVars
    /\ UNCHANGED <<orderbooks, lock, manageBooks, sym, update, snapshot, err,
                   saved, wrote, applied, built>>

CallBuildSnapshot(p) ==
    /\ pc[p] = "idle"
    /\ calls < MaxCalls
    /\ pc' = [pc EXCEPT ![p] = "s_decode"]
    /\ calls' = calls + 1
    /\ UNCHANGED facVars
    /\ UNCHANGED <<orderbooks, lock, manageBooks, sym, update, snapshot, err,
                   saved, wrote, applied, built>>

(* Build, up to the test of manageBooks: decode the bytes, index the      *)
(* decoded array, construct the update.                                   *)
BuildDecode(p) ==
    /\ pc[p] = "b_decode"
    /\ \E s \in Symbols, m \in UpdateMessages :
         LET d == ConvertBytesToJsonNumberArray(m.bytes) IN
         /\ sym' = [sym EXCEPT ![p] = s]
         /\ IF d.err # NoError
            THEN /\ update' = [update EXCEPT ![p] = NilUpdate]
                 /\ err' = [err EXCEPT ![p] = d.err]
                 /\ pc' = [pc EXCEPT ![p] = "b_ret"]
            ELSE IF Len(d.tokens) < 2
            THEN /\ update' = [update EXCEPT ![p] = NilUpdate]
                 /\ err' = [err EXCEPT ![p] = Panic]
                 /\ pc' = [pc EXCEPT ![p] = "b_ret"]
            ELSE \E r \in NewBookUpdateFromRaw(m.raw, d.tokens[2]) :
                 /\ update' = [update EXCEPT ![p] = r.update]
                 /\ err' = [err EXCEPT ![p] = r.err]
                 /\ pc' = [pc EXCEPT ![p] = IF manageBooks THEN "b_lock" ELSE "b_ret"]
    /\ UNCHANGED facVars
    /\ UNCHANGED <<orderbooks, lock, manageBooks, snapshot, saved, wrote, applied, built, calls>>

BuildLockNoWait(p) ==
    /\ pc[p] = "b_lock"
    /\ lock' = p
    /\ saved' = [saved EXCEPT ![p] = orderbooks[sym[p]]]
    /\ pc' = [pc EXCEPT ![p] = "b_apply"]
    /\ UNCHANGED facVars
    /\ UNCHANGED <<orderbooks, manageBooks, sym, update, snapshot, err, wrote,
                   applied, built, calls>>

(* f.lock.Lock() *)
BuildLock(p) ==
    /\ pc[p] = "b_lock"
    /\ lock = 0
    /\ lock' = p
    /\ saved' = [saved EXCEPT ![p] = orderbooks[sym[p]]]
    /\ pc' = [pc EXCEPT ![p] = "b_apply"]
    /\ UNCHANGED facVars
    /\ UNCHANGED <<orderbooks, manageBooks, sym, update, snapshot, err, wrote,
                   applied, built, calls>>

BuildApplySkip(p) ==
    /\ pc[p] = "b_apply"
    /\ pc' = [pc EXCEPT ![p] = "b_ret"]
    /\ UNCHANGED facVars
    /\ UNCHANGED <<orderbooks, err, wrote, lock, manageBooks, sym, update, snapshot,
                   saved, applied, built, calls>>

BuildApplyCreate(p) ==
    /\ pc[p] = "b_apply"
    /\ update[p] # NilUpdate
    /\ orderbooks' = [orderbooks EXCEPT ![sym[p]] =
                        UpdateWith(IF orderbooks[sym[p]] = Absent THEN EmptyBook
                                   ELSE orderbooks[sym[p]], update[p])]
    /\ wrote' = [wrote EXCEPT ![p] = wrote[p] \/ orderbooks' # orderbooks]
    /\ pc' = [pc EXCEPT ![p] = "b_ret"]
    /\ UNCHANGED facVars
    /\ UNCHANGED <<err, lock, manageBooks, sym, update, snapshot, saved, applied,
                   built, calls>>

BuildApplyDeleteEmpty(p) ==
    /\ pc[p] = "b_apply"
    /\ IF orderbooks[sym[p]] = Absent \/ update[p] = NilUpdate
       THEN UNCHANGED orderbooks
       ELSE LET ob == UpdateWith(orderbooks[sym[p]], update[p]) IN
            orderbooks' = [orderbooks EXCEPT
                             ![sym[p]] = IF ob = EmptyBook THEN Absent ELSE ob]
    /\ wrote' = [wrote EXCEPT ![p] = wrote[p] \/ orderbooks' # orderbooks]
    /\ pc' = [pc EXCEPT ![p] = "b_ret"]
    /\ UNCHANGED facVars
    /\ UNCHANGED <<err, lock, manageBooks, sym, update, snapshot, saved, applied,
                   built, calls>>

(* The lookup and orderbook.UpdateWith(update).  A nil update is either   *)
(* ignored by UpdateWith or dereferenced by it.                           *)
BuildApply(p) ==
    /\ pc[p] = "b_apply"
    /\ IF orderbooks[sym[p]] = Absent
       THEN UNCHANGED <<orderbooks, err>>
       ELSE IF update[p] = NilUpdate
       THEN /\ UNCHANGED orderbooks
            /\ \/ UNCHANGED err
               \/ err' = [err EXCEPT ![p] = Panic]
       ELSE /\ orderbooks' = [orderbooks EXCEPT
                                ![sym[p]] = UpdateWith(orderbooks[sym[p]], update[p])]
            /\ UNCHANGED err
    /\ wrote' = [wrote EXCEPT ![p] = wrote[p] \/ orderbooks' # orderbooks]
    /\ pc' = [pc EXCEPT ![p] = "b_ret"]
    /\ UNCHANGED facVars
    /\ UNCHANGED <<lock, manageBooks, sym, update, snapshot, saved, applied, built, calls>>

(* return update, err, after the deferred f.lock.Unlock(). *)
BuildReturn(p) ==
    /\ pc[p] = "b_ret"
    /\ IF lock = p
       THEN /\ lock' = 0
            /\ applied' = IF err[p] = Panic THEN applied ELSE WholeCall(applied, p)
       ELSE UNCHANGED <<lock, applied>>
    /\ pc' = [pc EXCEPT ![p] = "idle"]
    /\ sym' = [sym EXCEPT ![p] = 1]
    /\ update' = [update EXCEPT ![p] = NilUpdate]
    /\ err' = [err EXCEPT ![p] = NoError]
    /\ saved' = [saved EXCEPT ![p] = NotTaken]
    /\ wrote' = [wrote EXCEPT ![p] = FALSE]
    /\ built' = IF lock = p /\ err[p] = NoError
                THEN [built EXCEPT ![sym[p]] =
                        IF saved[p] = Absent THEN "absent" ELSE "present"]
                ELSE built
    /\ UNCHANGED facVars
    /\ UNCHANGED <<orderbooks, manageBooks, snapshot, calls>>

(* Where BuildSnapshot goes once the snapshot is constructed: out on an  *)
(* error, to the lock when the books are managed.                         *)
SnapshotAfterConstructNoCheck(err2) ==
    IF manageBooks THEN "s_lock" ELSE "s_ret"

SnapshotAfterConstructAlways(err2) ==
    IF err2 = NoError THEN "s_lock" ELSE "s_ret"

SnapshotAfterConstruct(err2) ==
    IF err2 = NoError /\ manageBooks THEN "s_lock" ELSE "s_ret"

(* BuildSnapshot, up to the test of manageBooks: convert the rows, decode *)
(* the bytes, index the decoded array, construct the snapshot.            *)
SnapshotDecode(p) ==
    /\ pc[p] = "s_decode"
    /\ \E s \in Symbols, m \in SnapshotMessages :
         LET c == ToFloat64Array(m.raw)
             d == ConvertBytesToJsonNumberArray(m.bytes) IN
         /\ sym' = [sym EXCEPT ![p] = s]
         /\ IF c.err # NoError
            THEN /\ snapshot' = [snapshot EXCEPT ![p] = <<>>]
                 /\ err' = [err EXCEPT ![p] = c.err]
                 /\ pc' = [pc EXCEPT ![p] = "s_ret"]
            ELSE IF d.err # NoError
            THEN /\ snapshot' = [snapshot EXCEPT ![p] = <<>>]
                 /\ err' = [err EXCEPT ![p] = d.err]
                 /\ pc' = [pc EXCEPT ![p] = "s_ret"]
            ELSE IF Len(d.tokens) < 2
            THEN /\ snapshot' = [snapshot EXCEPT ![p] = <<>>]
                 /\ err' = [err EXCEPT ![p] = Panic]
                 /\ pc' = [pc EXCEPT ![p] = "s_ret"]
            ELSE LET r == NewBookUpdateSnapshotFromRaw(c.rows, d.tokens[2]) IN
                 /\ snapshot' = [snapshot EXCEPT ![p] = r.snapshot]
                 /\ err' = [err EXCEPT ![p] = r.err]
                 /\ pc' = [pc EXCEPT ![p] = SnapshotAfterConstruct(r.err)]
    /\ UNCHANGED facVars
    /\ UNCHANGED <<orderbooks, lock, manageBooks, update, saved, wrote, applied, built, calls>>

(* f.lock.Lock() *)
SnapshotLock(p) ==
    /\ pc[p] = "s_lock"
    /\ lock = 0
    /\ lock' = p
    /\ saved' = [saved EXCEPT ![p] = orderbooks[sym[p]]]
    /\ pc' = [pc EXCEPT ![p] = "s_install"]
    /\ UNCHANGED facVars
    /\ UNCHANGED <<orderbooks, manageBooks, sym, update, snapshot, err, wrote,
                   applied, built, calls>>

SnapshotInstallKeep(p) ==
    /\ pc[p] = "s_install"
    /\ orderbooks' = IF orderbooks[sym[p]] = Absent
                     THEN [orderbooks EXCEPT ![sym[p]] = EmptyBook]
                     ELSE orderbooks
    /\ wrote' = [wrote EXCEPT ![p] = wrote[p] \/ orderbooks' # orderbooks]
    /\ pc' = [pc EXCEPT ![p] = "s_populate"]
    /\ UNCHANGED facVars
    /\ UNCHANGED <<lock, manageBooks, sym, update, snapshot, err, saved, applied,
                   built, calls>>

SnapshotInstallResetAll(p) ==
    /\ pc[p] = "s_install"
    /\ orderbooks' = [s \in Symbols |-> IF s = sym[p] THEN EmptyBook ELSE Absent]
    /\ wrote' = [wrote EXCEPT ![p] = wrote[p] \/ orderbooks' # orderbooks]
    /\ pc' = [pc EXCEPT ![p] = "s_populate"]
    /\ UNCHANGED facVars
    /\ UNCHANGED <<lock, manageBooks, sym, update, snapshot, err, saved, applied,
                   built, calls>>

SnapshotInstallUnlock(p) ==
    /\ pc[p] = "s_install"
    /\ orderbooks' = [orderbooks EXCEPT ![sym[p]] = EmptyBook]
    /\ lock' = 0
    /\ wrote' = [wrote EXCEPT ![p] = wrote[p] \/ orderbooks' # orderbooks]
    /\ pc' = [pc EXCEPT ![p] = "s_populate"]
    /\ UNCHANGED facVars
    /\ UNCHANGED <<manageBooks, sym, update, snapshot, err, saved, applied, built, calls>>

(* f.orderbooks[symbol] = &Orderbook{bids: empty, asks: empty} *)
SnapshotInstall(p) ==
    /\ pc[p] = "s_install"
    /\ orderbooks' = [orderbooks EXCEPT ![sym[p]] = EmptyBook]
    /\ wrote' = [wrote EXCEPT ![p] = wrote[p] \/ orderbooks' # orderbooks]
    /\ pc' = [pc EXCEPT ![p] = "s_populate"]
    /\ UNCHANGED facVars
    /\ UNCHANGED <<lock, manageBooks, sym, update, snapshot, err, saved, applied, built, calls>>

(* f.orderbooks[symbol].SetWithSnapshot(update) *)
SnapshotPopulate(p) ==
    /\ pc[p] = "s_populate"
    /\ orderbooks' = [orderbooks EXCEPT
                        ![sym[p]] = SetWithSnapshot(orderbooks[sym[p]], snapshot[p])]
    /\ wrote' = [wrote EXCEPT ![p] = wrote[p] \/ orderbooks' # orderbooks]
    /\ pc' = [pc EXCEPT ![p] = "s_ret"]
    /\ UNCHANGED facVars
    /\ UNCHANGED <<lock, manageBooks, sym, update, snapshot, err, saved, applied, built, calls>>

(* return update, err, after the deferred f.lock.Unlock(). *)
SnapshotReturn(p) ==
    /\ pc[p] = "s_ret"
    /\ IF lock = p
       THEN /\ lock' = 0
            /\ applied' = WholeCall(applied, p)
       ELSE UNCHANGED <<lock, applied>>
    /\ pc' = [pc EXCEPT ![p] = "idle"]
    /\ sym' = [sym EXCEPT ![p] = 1]
    /\ snapshot' = [snapshot EXCEPT ![p] = <<>>]
    /\ err' = [err EXCEPT ![p] = NoError]
    /\ saved' = [saved EXCEPT ![p] = NotTaken]
    /\ wrote' = [wrote EXCEPT ![p] = FALSE]
    /\ UNCHANGED facVars
    /\ UNCHANGED <<orderbooks, manageBooks, update, built, calls>>

Next ==
    \E p \in Procs :
        \/ CallBuild(p)
        \/ BuildDecode(p)
        \/ BuildLock(p)
        \/ BuildApply(p)
        \/ BuildReturn(p)
        \/ CallBuildSnapshot(p)
        \/ SnapshotDecode(p)
        \/ SnapshotLock(p)
        \/ SnapshotInstall(p)
        \/ SnapshotPopulate(p)
        \/ SnapshotReturn(p)

Spec == Init /\ [][Next]_vars

(* ------------------------------------------------- the stateless factories *)
MaxFields == 2
MaxKeyLen == 4

(* raw []interface{}: MaxFields stands for the number of fields a record   *)
(* constructor needs; shorter payloads and non-numeric cells are malformed. *)
FacRaws == UNION {[1..n -> {1, BadCell}] : n \in 0..MaxFields}
FacRows == {<<>>} \cup {<<r>> : r \in FacRaws}
RawComplete(raw) == Len(raw) = MaxFields /\ \A i \in 1..Len(raw) : raw[i] # BadCell

(* objType: "tu" is the trade update, the others are passed on. *)
ObjTypes == {"tu", "te", "fte"}

(* sub.Request.Key as a string of characters. *)
KeyChars == {"a", "b", ":"}
Keys == UNION {[1..n -> KeyChars] : n \in 0..MaxKeyLen}

NilValue == [kind |-> "nil"]
KeyError == "unable to parse key"
NotConstructed == <<>>

(* strings.Split(s, sep) for a separator of one character. *)
RECURSIVE Split(_, _)
Split(s, sep) ==
    IF \A i \in 1..Len(s) : s[i] # sep
    THEN <<s>>
    ELSE LET i == CHOOSE k \in 1..Len(s) :
                     s[k] = sep /\ \A j \in 1..(k - 1) : s[j] # sep
         IN <<SubSeq(s, 1, i - 1)>> \o Split(SubSeq(s, i + 1, Len(s)), sep)

(* bitfinex.NewTradeFromRaw *)
NewTradeFromRaw(symbol, raw) ==
    IF RawComplete(raw)
    THEN [val |-> [kind |-> "Trade", symbol |-> symbol, raw |-> raw], err |-> NoError]
    ELSE [val |-> NilValue, err |-> ConstructError]

TradeFactory_BuildEager(symbol, objType, raw) ==
    LET r == NewTradeFromRaw(symbol, raw) IN
    IF "tu" = objType
    THEN [val |-> NilValue, err |-> NoError, msg |-> <<>>, constructed |-> <<symbol>>]
    ELSE [val |-> r.val, err |-> r.err, msg |-> <<>>, constructed |-> <<symbol>>]

(* TradeFactory.Build.  constructed: the symbol handed to a constructor,   *)
(* empty when none was invoked.                                            *)
TradeFactory_Build(symbol, objType, raw) ==
    IF "tu" = objType
    THEN [val |-> NilValue, err |-> NoError, msg |-> <<>>, constructed |-> NotConstructed]
    ELSE LET r == NewTradeFromRaw(symbol, raw) IN
         [val |-> r.val, err |-> r.err, msg |-> <<>>, constructed |-> <<symbol>>]

(* derivatives.FromWsRaw *)
FromWsRaw(symbol, raw) ==
    IF RawComplete(raw)
    THEN [val |-> [kind |-> "DerivativeStatus", symbol |-> symbol, raw |-> raw],
          err |-> NoError]
    ELSE [val |-> NilValue, err |-> ConstructError]

StatsFactory_BuildAtLeast3(key, raw) ==
    LET splits == Split(key, ":") IN
    IF Len(splits) < 3
    THEN [val |-> NilValue, err |-> KeyError,
          msg |-> <<"unable to parse key to symbol ">> \o key,
          constructed |-> NotConstructed]
    ELSE LET symbol == splits[2] \o <<":">> \o splits[3]
             d == FromWsRaw(symbol, raw)
         IN [val |-> d.val, err |-> d.err, msg |-> <<>>, constructed |-> <<symbol>>]

(* StatsFactory.Build *)
StatsFactory_Build(key, raw) ==
    LET splits == Split(key, ":") IN
    IF Len(splits) # 3
    THEN [val |-> NilValue, err |-> KeyError,
          msg |-> <<"unable to parse key to symbol ">> \o key,
          constructed |-> NotConstructed]
    ELSE LET symbol == splits[2] \o <<":">> \o splits[3]
             d == FromWsRaw(symbol, raw)
         IN [val |-> d.val, err |-> d.err, msg |-> <<>>, constructed |-> <<symbol>>]

StatsFactory_BuildSnapshotParsing(key, raw, raw_bytes) ==
    IF Len(Split(key, ":")) # 3
    THEN [val |-> NilValue, err |-> KeyError,
          msg |-> <<"unable to parse key to symbol ">> \o key,
          constructed |-> NotConstructed]
    ELSE [val |-> NilValue, err |-> NoError, msg |-> <<>>, constructed |-> NotConstructed]

(* StatsFactory.BuildSnapshot: no snapshots. *)
StatsFactory_BuildSnapshot(key, raw, raw_bytes) ==
    [val |-> NilValue, err |-> NoError, msg |-> <<>>, constructed |-> NotConstructed]

(* extractSymbolResolutionFromKey: prefix, resolution, symbol. *)
extractSymbolResolutionFromKey(key) ==
    LET str == Split(key, ":") IN
    IF Len(str) # 3
    THEN [sym |-> <<>>, res |-> <<>>, err |-> KeyError]
    ELSE [sym |-> str[3], res |-> str[2], err |-> NoError]

(* candle.FromRaw *)
CandleFromRaw(symbol, resolution, raw) ==
    IF RawComplete(raw)
    THEN [val |-> [kind |-> "Candle", symbol |-> symbol, resolution |-> resolution,
                   raw |-> raw],
          err |-> NoError]
    ELSE [val |-> NilValue, err |-> ConstructError]

(* candle.SnapshotFromRaw *)
CandleSnapshotFromRaw(symbol, resolution, raw) ==
    IF \A i \in 1..Len(raw) : RawComplete(raw[i])
    THEN [val |-> [kind |-> "CandleSnapshot", symbol |-> symbol,
                   resolution |-> resolution, raw |-> raw],
          err |-> NoError]
    ELSE [val |-> NilValue, err |-> ConstructError]

(* CandlesFactory.Build *)
CandlesFactory_Build(key, raw) ==
    LET k == extractSymbolResolutionFromKey(key) IN
    IF k.err # NoError
    THEN [val |-> NilValue, err |-> k.err, msg |-> <<>>, constructed |-> NotConstructed]
    ELSE LET c == CandleFromRaw(k.sym, k.res, raw) IN
         [val |-> c.val, err |-> c.err, msg |-> <<>>, constructed |-> <<k.sym, k.res>>]

(* CandlesFactory.BuildSnapshot *)
CandlesFactory_BuildSnapshot(key, raw) ==
    LET k == extractSymbolResolutionFromKey(key) IN
    IF k.err # NoError
    THEN [val |-> NilValue, err |-> k.err, msg |-> <<>>, constructed |-> NotConstructed]
    ELSE LET c == CandleSnapshotFromRaw(k.sym, k.res, raw) IN
         [val |-> c.val, err |-> c.err, msg |-> <<>>, constructed |-> <<k.sym, k.res>>]

(* One call of a stateless factory, from its arguments to its return. *)
CallTradeBuild ==
    /\ req = NoRequest
    /\ \E s \in Symbols, t \in ObjTypes, raw \in FacRaws :
         /\ req' = [op |-> "TradeFactory.Build", symbol |-> s, objType |-> t, raw |-> raw]
         /\ res' = TradeFactory_Build(s, t, raw)
    /\ UNCHANGED bookVars

CallStatsBuild ==
    /\ req = NoRequest
    /\ \E key \in Keys, raw \in FacRaws :
         /\ req' = [op |-> "StatsFactory.Build", key |-> key, raw |-> raw]
         /\ res' = StatsFactory_Build(key, raw)
    /\ UNCHANGED bookVars

CallStatsBuildSnapshot ==
    /\ req = NoRequest
    /\ \E key \in Keys, raw \in FacRows,
          b \in {MalformedBytes, ArrayBytes(<<ChanId>>), ArrayBytes(<<ChanId, <<>>>>)} :
         /\ req' = [op |-> "StatsFactory.BuildSnapshot", key |-> key, raw |-> raw,
                    raw_bytes |-> b]
         /\ res' = StatsFactory_BuildSnapshot(key, raw, b)
    /\ UNCHANGED bookVars

CallCandlesBuild ==
    /\ req = NoRequest
    /\ \E key \in Keys, raw \in FacRaws :
         /\ req' = [op |-> "CandlesFactory.Build", key |-> key, raw |-> raw]
         /\ res' = CandlesFactory_Build(key, raw)
    /\ UNCHANGED bookVars

CallCandlesBuildSnapshot ==
    /\ req = NoRequest
    /\ \E key \in Keys, raw \in FacRows :
         /\ req' = [op |-> "CandlesFactory.BuildSnapshot", key |-> key, raw |-> raw]
         /\ res' = CandlesFactory_BuildSnapshot(key, raw)
    /\ UNCHANGED bookVars

(* ------------------------------------------------- the decoder on text *)
MaxBytesLen == 4
MaxElems == 2

(* raw_bytes as text, one character per element. *)
Digits == {"0", "1", "2", "3", "4", "5", "6", "7", "8", "9"}
ByteChars == {"[", "]", ",", "0", "1", "-"}
ShortTexts == UNION {[1..n -> ByteChars] : n \in 0..MaxBytesLen}

(* 9007199254740993 = 2^53 + 1, which no float64 holds. *)
BigLiteral == <<"9", "0", "0", "7", "1", "9", "9", "2", "5", "4", "7", "4", "0", "9", "9", "3">>
IntLiterals == {<<"0">>, <<"1">>, <<"-", "1">>, <<"1", "0">>, BigLiteral}
LiteralLists == UNION {[1..n -> IntLiterals] : n \in 1..MaxElems}

RECURSIVE JoinLiterals(_)
JoinLiterals(l) ==
    IF Len(l) = 1 THEN Head(l) ELSE Head(l) \o <<",">> \o JoinLiterals(Tail(l))

ArrayText(l) == <<"[">> \o JoinLiterals(l) \o <<"]">>

NullText == <<"n", "u", "l", "l">>

ByteTexts ==
    ShortTexts \cup {ArrayText(l) : l \in LiteralLists}
               \cup {NullText, <<"[">> \o NullText \o <<"]">>}

(* A decoded value: with UseNumber a number is a json.Number, the text of *)
(* its literal.                                                            *)
NumberValue(text) == [t |-> "num", v |-> text]
ArrayValue(elems) == [t |-> "arr", v |-> elems]
NullValue == [t |-> "null", v |-> <<>>]
NoValue == [ok |-> FALSE, val |-> NullValue, next |-> 0]

RECURSIVE DigitsEnd(_, _)
DigitsEnd(b, j) ==
    IF j + 1 <= Len(b) /\ b[j + 1] \in Digits THEN DigitsEnd(b, j + 1) ELSE j

(* An integer literal at b[i]: an optional sign, then 0 or a run of digits *)
(* that does not start with 0.  The texts of the model hold no fraction    *)
(* and no exponent.                                                        *)
ScanNumber(b, i) ==
    LET j == IF b[i] = "-" THEN i + 1 ELSE i IN
    IF j > Len(b) \/ b[j] \notin Digits
    THEN NoValue
    ELSE LET e == IF b[j] = "0" THEN j ELSE DigitsEnd(b, j) IN
         [ok |-> TRUE, val |-> NumberValue(SubSeq(b, i, e)), next |-> e + 1]

(* The JSON value that starts at b[i], and where it ends. *)
RECURSIVE ScanValue(_, _)
RECURSIVE ScanElems(_, _, _)
ScanValue(b, i) ==
    IF i > Len(b) THEN NoValue
    ELSE IF b[i] = "[" THEN
         IF i + 1 > Len(b) THEN NoValue
         ELSE IF b[i + 1] = "]"
         THEN [ok |-> TRUE, val |-> ArrayValue(<<>>), next |-> i + 2]
         ELSE ScanElems(b, i + 1, <<>>)
    ELSE IF b[i] = "-" \/ b[i] \in Digits THEN ScanNumber(b, i)
    ELSE IF i + 3 <= Len(b) /\ SubSeq(b, i, i + 3) = NullText
    THEN [ok |-> TRUE, val |-> NullValue, next |-> i + 4]
    ELSE NoValue

ScanElems(b, i, acc) ==
    LET r == ScanValue(b, i) IN
    IF ~r.ok \/ r.next > Len(b) THEN NoValue
    ELSE IF b[r.next] = ","
    THEN ScanElems(b, r.next + 1, Append(acc, r.val))
    ELSE IF b[r.next] = "]"
    THEN [ok |-> TRUE, val |-> ArrayValue(Append(acc, r.val)), next |-> r.next + 1]
    ELSE NoValue

(* d.Decode(&raw_json_number): the decoder reads the first JSON value of   *)
(* the text and leaves what follows it unread; an array fills the slice,   *)
(* null leaves it nil, any other value is a type error.                    *)
Decode(text) ==
    LET r == ScanValue(text, 1) IN
    IF ~r.ok THEN MalformedBytes
    ELSE IF r.val.t = "arr" THEN ArrayBytes(r.val.v)
    ELSE IF r.val.t = "null" THEN ArrayBytes(<<>>)
    ELSE MalformedBytes

CallConvertBytes ==
    /\ req = NoRequest
    /\ \E text \in ByteTexts :
         LET d == ConvertBytesToJsonNumberArray(Decode(text)) IN
         /\ req' = [op |-> "ConvertBytesToJsonNumberArray", raw_bytes |-> text]
         /\ res' = [val |-> d.tokens, err |-> d.err, msg |-> <<>>,
                    constructed |-> NotConstructed]
    /\ UNCHANGED bookVars

(* The caller has taken the result: the factory is ready for the next call. *)
FacReturn ==
    /\ req # NoRequest
    /\ req' = NoRequest
    /\ res' = NoResult
    /\ UNCHANGED bookVars

FacNext ==
    \/ CallTradeBuild
    \/ CallStatsBuild
    \/ CallStatsBuildSnapshot
    \/ CallCandlesBuild
    \/ CallCandlesBuildSnapshot
    \/ CallConvertBytes
    \/ FacReturn

FacSpec == Init /\ [][FacNext]_vars

(* ------------------------------------------------------------ properties *)
BookLevels(ob) == SeqToSet(ob.bids) \cup SeqToSet(ob.asks)

IsBook(e) == e # Absent /\ e # NotTaken

(* Strictly ordered by Before: sorted in the side's direction, one level  *)
(* per price.                                                             *)
SortedSide(s) == \A i, j \in 1..Len(s) : i < j => Before(s[i], s[j])

BookConsistent(ob) ==
    /\ SortedSide(ob.bids)
    /\ SortedSide(ob.asks)
    /\ \A l \in SeqToSet(ob.bids) : IsBid(l) /\ l.count > 0
    /\ \A l \in SeqToSet(ob.asks) : ~IsBid(l) /\ l.count > 0

SideOf(ob, u) == IF IsBid(u) THEN ob.bids ELSE ob.asks
OtherSideOf(ob, u) == IF IsBid(u) THEN ob.asks ELSE ob.bids

(* C1: a BuildSnapshot that found a book for its symbol when it took the  *)
(* lock leaves, when it is about to unlock, a book whose levels are       *)
(* exactly the rows of the new snapshot.                                  *)
C1_SnapshotReplacesWholesale ==
    \A p \in Procs :
        (pc[p] = "s_ret" /\ lock = p /\ IsBook(saved[p]))
            => BookLevels(orderbooks[sym[p]]) = SeqToSet(snapshot[p])

C1_Witness ==
    \E p \in Procs :
        /\ pc[p] = "s_ret" /\ lock = p /\ IsBook(saved[p])
        /\ \E l \in BookLevels(saved[p]) :
              l \notin SeqToSet(snapshot[p]) /\ l \notin BookLevels(orderbooks[sym[p]])
        /\ snapshot[p] # <<>>

(* C2: a Build that applied update u to a book: the other side is as it   *)
(* was; the side of u holds the old levels at other prices, plus u when   *)
(* its count is positive, in sorted order; a zero count at an absent      *)
(* price changes nothing, and applying a zero-count update again changes  *)
(* nothing.                                                               *)
C2_UpdateSemantics ==
    \A p \in Procs :
        (pc[p] = "b_ret" /\ lock = p /\ IsBook(saved[p]) /\ update[p] # NilUpdate)
            => LET u == update[p]
                   old == saved[p]
                   new == orderbooks[sym[p]]
                   kept == {l \in SeqToSet(SideOf(old, u)) : l.price # u.price}
               IN /\ OtherSideOf(new, u) = OtherSideOf(old, u)
                  /\ SortedSide(SideOf(new, u))
                  /\ SeqToSet(SideOf(new, u)) = IF u.count > 0 THEN kept \cup {u} ELSE kept
                  /\ Len(SideOf(new, u)) = Cardinality(SeqToSet(SideOf(new, u)))
                  /\ (u.count = 0 /\ kept = SeqToSet(SideOf(old, u))) => new = old
                  /\ u.count = 0 => UpdateWith(new, u) = new

C2_Witness ==
    \E p \in Procs :
        /\ pc[p] = "b_ret" /\ lock = p /\ IsBook(saved[p]) /\ update[p] # NilUpdate
        /\ update[p].count > 0
        /\ \A l \in SeqToSet(SideOf(saved[p], update[p])) : l.price # update[p].price
        /\ Len(SideOf(orderbooks[sym[p]], update[p])) >= 2
        /\ Head(SideOf(orderbooks[sym[p]], update[p])) = update[p]

C4_DecodeFailureTouchesNothing ==
    \A p \in Procs :
        (pc[p] \in {"b_ret", "s_ret"} /\ err[p] = DecodeError)
            => /\ lock # p
               /\ saved[p] = NotTaken
               /\ ~wrote[p]
               /\ update[p] = NilUpdate
               /\ snapshot[p] = <<>>

C4_Witness ==
    \E p, q \in Procs :
        /\ pc[p] = "b_ret" /\ err[p] = DecodeError
        /\ pc[q] = "s_ret" /\ err[q] = DecodeError
        /\ \E s \in Symbols : orderbooks[s] # Absent /\ orderbooks[s] # EmptyBook

C6_SnapshotErrorLeavesStore ==
    \A p \in Procs :
        (pc[p] = "s_ret" /\ err[p] \notin {NoError, Panic})
            => /\ ~wrote[p]
               /\ lock # p
               /\ saved[p] = NotTaken
               /\ snapshot[p] = <<>>

C6_Witness ==
    \E p \in Procs :
        /\ pc[p] = "s_ret" /\ err[p] = ConstructError
        /\ orderbooks[sym[p]] # Absent /\ orderbooks[sym[p]] # EmptyBook
        /\ \E s \in Symbols : orderbooks[s] = Absent

(* C7: a Build that found no book for its symbol when it took the lock    *)
(* leaves the symbol Absent, has changed nothing, and still holds the     *)
(* update it returns.                                                     *)
C7_BuildOnAbsentDropsUpdate ==
    \A p \in Procs :
        (pc[p] = "b_ret" /\ lock = p /\ saved[p] = Absent)
            => /\ orderbooks[sym[p]] = Absent
               /\ ~wrote[p]
               /\ (err[p] = NoError => update[p] \in Updates)

C7_Witness ==
    \E p \in Procs :
        /\ pc[p] = "b_ret" /\ lock = p /\ saved[p] = Absent
        /\ err[p] = NoError /\ update[p] \in Levels
        /\ \E s \in Symbols : orderbooks[s] # Absent

(* C8: while the lock is free the store is the result of the whole calls  *)
(* that have unlocked so far; the steps that read or write the store are  *)
(* taken by the lock holder only, so the empty book of a snapshot in      *)
(* progress is seen by nobody else.                                       *)
C8_NoPartialStateVisible ==
    /\ lock = 0 => orderbooks = applied
    /\ \A p \in Procs :
          pc[p] \in {"b_apply", "s_install", "s_populate"} => lock = p
    /\ \A p \in Procs :
          (lock = p /\ pc[p] \in {"b_ret", "s_ret"} /\ err[p] # Panic)
              => orderbooks = WholeCall(applied, p)

C8_Witness ==
    \E p, q \in Procs :
        /\ pc[p] = "s_populate" /\ lock = p
        /\ snapshot[p] # <<>>
        /\ orderbooks # applied
        /\ pc[q] \in {"b_lock", "s_lock"} /\ sym[q] = sym[p]

BuildStep(p) == pc[p] \in {"b_decode", "b_lock", "b_apply", "b_ret"} /\ pc'[p] # pc[p]

C10_SymbolStateMachine ==
    [][/\ \A s \in Symbols : orderbooks[s] # Absent => orderbooks'[s] # Absent
       /\ \A p \in Procs : BuildStep(p) =>
             \A s \in Symbols : orderbooks[s] = Absent => orderbooks'[s] = Absent
       /\ \A p \in Procs : (pc'[p] = "s_ret" /\ lock' = p) => orderbooks'[sym'[p]] # Absent
      ]_vars

C10_Witness ==
    \E p \in Procs :
        /\ pc[p] = "s_ret" /\ lock = p /\ saved[p] = Absent
        /\ orderbooks[sym[p]] # Absent
        /\ \E s \in Symbols : built[s] = "absent"

(* C11: with manageBooks off the lock is never taken and the store never  *)
(* changes; with it on or off, a Build that returns no error returns the  *)
(* constructed update, and a BuildSnapshot the constructed snapshot.      *)
C11_DisabledLeavesStoreAndLock ==
    /\ ~manageBooks =>
          /\ lock = 0
          /\ orderbooks = [s \in Symbols |-> Absent]
          /\ \A p \in Procs :
                /\ saved[p] = NotTaken
                /\ ~wrote[p]
                /\ pc[p] \notin {"b_lock", "b_apply", "s_lock", "s_install", "s_populate"}
    /\ \A p \in Procs :
          /\ (pc[p] = "b_ret" /\ err[p] = NoError) => update[p] \in Updates
          /\ (pc[p] = "s_ret" /\ err[p] = NoError) =>
                \A i \in 1..Len(snapshot[p]) : snapshot[p][i] \in Levels

C11_Witness ==
    /\ ~manageBooks
    /\ \E p, q \in Procs :
          /\ pc[p] = "b_ret" /\ err[p] = NoError /\ update[p] \in Levels
          /\ pc[q] = "s_ret" /\ err[q] = NoError /\ snapshot[q] # <<>>

(* C16: no Build or BuildSnapshot call aborts.                            *)
C16_NeverAborts ==
    \A p \in Procs : pc[p] \in {"b_ret", "s_ret"} => err[p] # Panic

(* C17: at most one caller is between Lock and Unlock; the steps that     *)
(* read or write the store are taken by the lock holder; a caller that is *)
(* idle, decoding or waiting does not hold the lock; and the store only   *)
(* changes in a step of the lock holder.                                  *)
InCritical(p) ==
    \/ pc[p] \in {"b_apply", "s_install", "s_populate"}
    \/ pc[p] \in {"b_ret", "s_ret"} /\ lock = p

MutualExclusion ==
    /\ \A p, q \in Procs : (p # q /\ InCritical(p)) => ~InCritical(q)
    /\ \A p \in Procs : InCritical(p) => lock = p
    /\ \A p \in Procs :
          pc[p] \in {"idle", "b_decode", "s_decode", "b_lock", "s_lock"} => lock # p

C17_MutualExclusion ==
    /\ []MutualExclusion
    /\ [][orderbooks' # orderbooks =>
             \E p \in Procs : lock = p /\ InCritical(p) /\ pc'[p] # pc[p]]_vars

C17_Witness ==
    \E p, q \in Procs :
        /\ pc[p] = "b_apply" /\ lock = p /\ orderbooks[sym[p]] # Absent
        /\ pc[q] = "s_lock" /\ sym[q] = sym[p]

(* C18: every call ends by returning, with the lock released, and the     *)
(* lock is free whenever no call is in progress.                          *)
C18_EveryCallReturns ==
    /\ []((\A p \in Procs : pc[p] = "idle") => lock = 0)
    /\ [][\A p \in Procs :
             (pc[p] # "idle" /\ pc'[p] = "idle") => (err[p] # Panic /\ lock' # p)]_vars

(* C19: once no call is in progress, the store is the one obtained by     *)
(* running the calls one at a time in the order they held the lock.       *)
C19_Serializable ==
    (\A p \in Procs : pc[p] = "idle") => orderbooks = applied

C19_Witness ==
    \E p, q \in Procs :
        /\ pc[q] = "s_ret" /\ lock = q /\ saved[q] = Absent /\ snapshot[q] # <<>>
        /\ pc[p] = "b_lock" /\ sym[p] = sym[q]
        /\ update[p] \in Levels /\ update[p] \notin SeqToSet(snapshot[q])
        /\ calls = 2

(* C20: the book of a symbol only changes in a step of a call for that    *)
(* symbol.                                                                *)
C20_SymbolIsolation ==
    [][\A s \in Symbols :
          orderbooks'[s] # orderbooks[s] =>
              \E p \in Procs : InCritical(p) /\ pc'[p] # pc[p] /\ sym[p] = s]_vars

C20_Witness ==
    \E p \in Procs :
        /\ pc[p] \in {"b_ret", "s_ret"} /\ lock = p /\ wrote[p]
        /\ \E s \in Symbols :
              s # sym[p] /\ orderbooks[s] # Absent /\ orderbooks[s] # EmptyBook

(* ------------------------------------------------- stateless factories *)
Colons(key) == Cardinality({i \in 1..Len(key) : key[i] = ":"})

AfterFirstColon(key) ==
    LET i == CHOOSE k \in 1..Len(key) : key[k] = ":" /\ \A j \in 1..(k - 1) : key[j] # ":"
    IN SubSeq(key, i + 1, Len(key))

(* C12: TradeFactory.Build on the subtype "tu" returns (nil, nil) whatever  *)
(* the raw fields and invokes no trade construction; on every other        *)
(* subtype it returns what NewTradeFromRaw gives for the subscription      *)
(* symbol and the raw fields.                                              *)
C12_TradeUpdateFiltered ==
    req.op = "TradeFactory.Build" =>
        IF req.objType = "tu"
        THEN res.val = NilValue /\ res.err = NoError /\ res.constructed = NotConstructed
        ELSE /\ res.val = NewTradeFromRaw(req.symbol, req.raw).val
             /\ res.err = NewTradeFromRaw(req.symbol, req.raw).err
             /\ res.constructed = <<req.symbol>>

C12_Witness ==
    /\ req.op = "TradeFactory.Build"
    /\ req.objType = "tu"
    /\ ~RawComplete(req.raw)
    /\ res.val = NilValue

(* C13: StatsFactory.Build parses the key iff it has exactly three          *)
(* ':'-separated segments and then builds for segment2 ":" segment3;       *)
(* otherwise it returns (nil, error naming the key) and constructs         *)
(* nothing.  The candle factory returns (nil, error) and constructs        *)
(* nothing when its key parsing fails.                                     *)
C13_KeyParsing ==
    /\ req.op = "StatsFactory.Build" =>
          IF Colons(req.key) = 2
          THEN /\ res.err # KeyError
               /\ res.constructed = <<AfterFirstColon(req.key)>>
               /\ res.err = NoError => res.val.symbol = AfterFirstColon(req.key)
          ELSE /\ res.val = NilValue
               /\ res.err = KeyError
               /\ Len(res.msg) = Len(req.key) + 1
               /\ SubSeq(res.msg, 2, Len(res.msg)) = req.key
               /\ res.constructed = NotConstructed
    /\ (/\ req.op \in {"CandlesFactory.Build", "CandlesFactory.BuildSnapshot"}
        /\ extractSymbolResolutionFromKey(req.key).err # NoError) =>
          /\ res.val = NilValue
          /\ res.err # NoError
          /\ res.constructed = NotConstructed

C13_Witness ==
    /\ req.op = "StatsFactory.Build"
    /\ Colons(req.key) = 3
    /\ RawComplete(req.raw)
    /\ res.err = KeyError

(* C14: StatsFactory.BuildSnapshot returns (nil, nil) for every input and   *)
(* changes no state.                                                       *)
C14_StatsSnapshotNil ==
    [][req'.op = "StatsFactory.BuildSnapshot" =>
          /\ res'.val = NilValue
          /\ res'.err = NoError
          /\ res'.constructed = NotConstructed
          /\ bookVars' = bookVars]_vars

C14_Witness ==
    /\ req.op = "StatsFactory.BuildSnapshot"
    /\ Colons(req.key) # 2
    /\ req.raw_bytes = MalformedBytes
    /\ \E i \in 1..Len(req.raw) : ~RawComplete(req.raw[i])
    /\ res.val = NilValue

(* The whole text is one array literal. *)
IsArrayLiteral(text) ==
    LET r == ScanValue(text, 1) IN
    r.ok /\ r.val.t = "arr" /\ r.next = Len(text) + 1

RoundTripsLiterals ==
    req.op = "ConvertBytesToJsonNumberArray" =>
        \A l \in LiteralLists :
            req.raw_bytes = ArrayText(l) =>
                /\ res.err = NoError
                /\ Len(res.val) = Len(l)
                /\ \A i \in 1..Len(l) : res.val[i].t = "num" /\ res.val[i].v = l[i]

RejectsNonArrays ==
    (req.op = "ConvertBytesToJsonNumberArray" /\ ~IsArrayLiteral(req.raw_bytes)) =>
        res.err # NoError /\ res.val = <<>>

(* C15: ConvertBytesToJsonNumberArray gives, for an array of integer        *)
(* literals (also beyond 2^53), tokens whose text is the digit string of   *)
(* the bytes; for bytes that are no well-formed array literal it gives an  *)
(* error and no tokens.                                                    *)
C15_ExactDecoding == RoundTripsLiterals /\ RejectsNonArrays

====
